---- MODULE Spec2Model ----
\* AuthenticationManager (authentication_manager.ts): a browser-side client
\* that caches one session token under the localStorage key "auth_token" and
\* issues /validateToken, /login, /get, /profile, /roles and /logout requests.
\* Every public method is an async function; each await is a suspension point
\* at which other in-flight calls of the same page may run.
EXTENDS Integers, Sequences, FiniteSets, Bags, TLC

\* ---------------------------------------------------------------- bounds
NumCalls == 2      \* calls that may be in flight at the same time
NumTokens == 2     \* distinct tokens the server may issue

Tokens == {"tok" \o ToString(i) : i \in 1..NumTokens}
Usernames == {"bob"}

\* ---------------------------------------------------------- JSON values
\* A JavaScript value as a tagged record: a string, null, an object (v names
\* its content: the username field of a /get body), an array of one string
\* v, or a body that is not JSON.
JStr(s) == [k |-> "str", v |-> s]
JNull == [k |-> "null", v |-> ""]
JObj(u) == [k |-> "obj", v |-> u]
JArr(s) == [k |-> "arr", v |-> s]
Malformed == [k |-> "bad", v |-> ""]

\* String(v), the conversion localStorage.setItem applies to its value; an
\* array converts to its elements joined, so ["tok1"] becomes "tok1".
JsString(j) ==
    CASE j.k = "str" -> j.v
      [] j.k = "null" -> "null"
      [] j.k = "obj" -> "[object Object]"
      [] j.k = "arr" -> j.v
      [] OTHER -> "undefined"

\* Response.json(): rejects when the body is not JSON.
JsonRejects(b) == b.k = "bad"

\* const { username } = value: throws a TypeError on null.
DestructureThrows(j) == j.k = "null"
UsernameOf(j) == IF j.k = "obj" THEN j.v ELSE "undefined"

\* Bodies the server may send on each endpoint.
LoginBodies == {JStr(t) : t \in Tokens} \cup {JArr("tok1"), Malformed}
GetBodies == {JObj(u) : u \in Usernames} \cup {JNull, Malformed}
ProfileBodies == {JObj("profile"), Malformed}
RolesBodies == {JArr("admin"), Malformed}

\* Outcome of a fetch: a Response with a 2xx status, a Response with another
\* status, or a rejection (transport failure).
Statuses == {"ok", "notok"}
Outcomes == Statuses \cup {"neterr"}

\* ------------------------------------------------------------ localStorage
\* The "auth_token" entry: <<>> when absent, <<s>> when it holds the string s.
Absent == <<>>
getItem(st) == IF st = Absent THEN JNull ELSE JStr(st[1])
setItemIfAbsent(st, j) == IF st = Absent THEN <<JsString(j)>> ELSE st
setItem(st, j) == <<JsString(j)>>
removeItemFirstTokenOnly(st) == IF st = <<"tok1">> THEN Absent ELSE st
removeItem(st) == Absent

\* What has become of the entry since a call read tok from it: it is the
\* same, it was removed ("evicted"), it was absent and now holds a value
\* ("written"), or it holds another value than the one read ("replaced").
StoreSince(tok, st) ==
    IF getItem(st) = tok THEN "same"
    ELSE IF st = Absent THEN "evicted"
    ELSE IF tok = JNull THEN "written" ELSE "replaced"

\* ------------------------------------------------------------------ state
\* The calls in flight or settled and not yet collected by their caller are a
\* bag of records: calls have no identity beyond their own state. A call is
\*   op          the public method running
\*   pc          the await it is suspended at, or how it settled
\*   rememberMe  login's rememberMe argument
\*   username    login's argument or the name read from /get
\*   token       the token read from the store, carried by its request
\*   since       what had become of the store since the call read it, when it
\*               resumed after its await (see StoreSince)
\*   resp        outcome of its first request
\*   body        the /login body loginResponse.json() is reading
\*   profileReq  state of the /profile request
\*   rolesReq    state of the /roles request
\*   nonOk       a Response whose status the code never reads was not 2xx
\*   profile     the parsed profile
\*   result      the value the promise resolved with
VARIABLES
    store,       \* localStorage "auth_token"
    calls        \* the bag of calls

vars == <<store, calls>>

Done == {"resolved", "rejected"}

NoResult == [k |-> "none", profile |-> JNull, roles |-> JNull]
BoolResult(b) == [k |-> IF b THEN "true" ELSE "false", profile |-> JNull, roles |-> JNull]
VoidResult == [k |-> "undefined", profile |-> JNull, roles |-> JNull]
DataResult(p, r) == [k |-> "data", profile |-> p, roles |-> r]

\* A call of method m as it starts.
NewCall(m) ==
    [op |-> m, pc |-> "idle", rememberMe |-> FALSE, username |-> "",
     token |-> JNull, since |-> "same", resp |-> "none", body |-> JNull, profileReq |-> "none",
     rolesReq |-> "none", nonOk |-> FALSE, profile |-> JNull, result |-> NoResult]

Active == BagToSet(calls)
Start(n) == calls' = calls (+) SetToBag({n})
Replace(c, n) == calls' = (calls (-) SetToBag({c})) (+) SetToBag({n})
Remove(c) == calls' = calls (-) SetToBag({c})
CanStart == BagCardinality(calls) < NumCalls

Init ==
    /\ store \in {Absent} \cup {<<t>> : t \in Tokens}
    /\ calls = EmptyBag

\* --------------------------------------------------------------- isLoggedIn
\* validateToken: response.ok.
validateTokenNever(r) == FALSE
validateToken(r) == r = "ok"

\* isLoggedIn up to its await: read the token, post it to /validateToken.
CallIsLoggedInShortCircuit ==
    /\ CanStart
    /\ Start(IF store = Absent
             THEN [NewCall("isLoggedIn") EXCEPT !.pc = "resolved",
                                                !.result = BoolResult(FALSE)]
             ELSE [NewCall("isLoggedIn") EXCEPT !.token = getItem(store),
                                                !.pc = "validate"])
    /\ UNCHANGED store
CallIsLoggedIn ==
    /\ CanStart
    /\ Start([NewCall("isLoggedIn") EXCEPT !.token = getItem(store),
                                          !.pc = "validate"])
    /\ UNCHANGED store

\* The store after isLoggedIn's await: removed when validateToken threw
\* (catch block) or returned false.
isLoggedInStoreCatchOnly(st, r) == IF r = "neterr" THEN removeItem(st) ELSE st
isLoggedInStoreAlways(st, r) == removeItem(st)
isLoggedInStore(st, r) ==
    IF r = "neterr" THEN removeItem(st)
    ELSE IF ~validateToken(r) THEN removeItem(st) ELSE st

\* The value isLoggedIn resolves with.
isLoggedInValue(r) == IF r = "neterr" THEN FALSE ELSE validateToken(r)

\* How isLoggedIn settles: the catch block returns, it does not rethrow.
isLoggedInSettlesRethrow(r) == IF r = "neterr" THEN "rejected" ELSE "resolved"
isLoggedInSettlesRetries(r) == IF r = "neterr" THEN "validate" ELSE "resolved"
isLoggedInSettles(r) == "resolved"

\* The /validateToken request settles and isLoggedIn runs to its return.
ValidateResponse ==
    \E c \in Active :
        /\ c.pc = "validate"
        /\ \E r \in Outcomes :
               /\ store' = isLoggedInStore(store, r)
               /\ Replace(c, [c EXCEPT !.resp = r,
                                       !.pc = isLoggedInSettles(r),
                                       !.result = IF isLoggedInSettles(r) = "resolved"
                                                  THEN BoolResult(isLoggedInValue(r))
                                                  ELSE NoResult,
                                       !.token = JNull,
                                       !.since = StoreSince(c.token, store)])

\* ------------------------------------------------------------------- logout
CallLogout ==
    /\ CanStart
    /\ Start([NewCall("logout") EXCEPT !.token = getItem(store), !.pc = "logout"])
    /\ UNCHANGED store

\* The store after logout's await: the removeItem is skipped only when the
\* request rejected; the response status is never read.
logoutStoreOnOk(st, r) == IF r = "ok" THEN removeItem(st) ELSE st
logoutStoreAlways(st, r) == removeItem(st)
logoutStore(st, r) == IF r = "neterr" THEN st ELSE removeItem(st)

\* The /logout request settles and logout runs to its end.
LogoutResponse ==
    \E c \in Active :
        /\ c.pc = "logout"
        /\ \E r \in Outcomes :
               /\ store' = logoutStore(store, r)
               /\ Replace(c, [c EXCEPT !.resp = r,
                                       !.pc = IF r = "neterr" THEN "rejected" ELSE "resolved",
                                       !.result = IF r = "neterr" THEN NoResult ELSE VoidResult,
                                       !.token = JNull,
                                       !.since = StoreSince(c.token, store)])

\* ------------------------------------------- parallel /profile and /roles
\* Promise.all over the two requests: rejected as soon as one input rejects,
\* fulfilled once both have a Response (of any status), pending otherwise.
PromiseAllWaitsBoth(p, r) ==
    IF p = "pending" \/ r = "pending" THEN "pending"
    ELSE IF p = "neterr" \/ r = "neterr" THEN "rejected" ELSE "fulfilled"
PromiseAll(p, r) ==
    IF p = "neterr" \/ r = "neterr" THEN "rejected"
    ELSE IF p = "arrived" /\ r = "arrived" THEN "fulfilled"
    ELSE "pending"

\* The state of a request once its fetch settled with outcome o.
Settled(o) == IF o = "neterr" THEN "neterr" ELSE "arrived"

\* What is left of a request once the call has settled: a request still in
\* flight stays in flight, the others are released with the call's frame.
Release(q) == IF q = "pending" THEN "pending" ELSE "none"

\* The two this.request(...) calls evaluated for Promise.all's argument.
FetchProfileAndRoles(c) ==
    [c EXCEPT !.profileReq = "pending", !.rolesReq = "pending", !.pc = "all"]

\* The catch block of login and getProfileForLoggedInUser: log and rethrow.
Rethrow(c) ==
    [c EXCEPT !.pc = "rejected",
              !.profileReq = Release(@),
              !.rolesReq = Release(@),
              !.body = JNull,
              !.nonOk = FALSE,
              !.profile = JNull]

\* A request of c settles with outcome o, leaving the requests in states p
\* (/profile) and r (/roles): the code after `await Promise.all` runs when the
\* call is suspended there; a settled call ignores the outcome.
AfterRequest(c, o, p, r) ==
    LET d == [c EXCEPT !.profileReq = p, !.rolesReq = r] IN
    IF c.pc = "all"
    THEN LET a == PromiseAll(p, r) IN
         IF a = "rejected"
         THEN Rethrow(d)
         ELSE [d EXCEPT !.pc = IF a = "fulfilled" THEN "profileJson" ELSE @,
                        !.nonOk = @ \/ o = "notok"]
    ELSE [d EXCEPT !.profileReq = Release(@), !.rolesReq = Release(@)]

\* The /profile request settles with outcome o.
ProfileResponseRollsBack ==
    \E c \in Active :
        /\ c.profileReq = "pending"
        /\ \E o \in Outcomes :
               /\ Replace(c, AfterRequest(c, o, Settled(o), c.rolesReq))
               /\ store' = IF c.pc = "all" /\ o = "neterr" THEN removeItem(store)
                            ELSE store
ProfileResponse ==
    \E c \in Active :
        /\ c.profileReq = "pending"
        /\ \E o \in Outcomes :
               /\ Replace(c, AfterRequest(c, o, Settled(o), c.rolesReq))
               /\ UNCHANGED store

\* The /roles request settles with outcome o.
RolesResponse ==
    \E c \in Active :
        /\ c.rolesReq = "pending"
        /\ \E o \in Outcomes :
               /\ Replace(c, AfterRequest(c, o, c.profileReq, Settled(o)))
               /\ UNCHANGED store

\* profileResponse.json() settles on body b.
ProfileJson ==
    \E c \in Active :
        /\ c.pc = "profileJson"
        /\ \E b \in ProfileBodies :
               /\ Replace(c, IF JsonRejects(b)
                             THEN Rethrow(c)
                             ELSE [c EXCEPT !.profile = b, !.pc = "rolesJson"])
               /\ UNCHANGED store

\* rolesResponse.json() settles on body b; return { profile, roles }.
RolesJson ==
    \E c \in Active :
        /\ c.pc = "rolesJson"
        /\ \E b \in RolesBodies :
               /\ Replace(c, IF JsonRejects(b)
                             THEN Rethrow(c)
                             ELSE [c EXCEPT !.pc = "resolved",
                                            !.result = DataResult(c.profile, b),
                                            !.profileReq = Release(@),
                                            !.rolesReq = Release(@),
                                            !.nonOk = FALSE,
                                            !.profile = JNull])
               /\ UNCHANGED store

\* -------------------------------------------------------------------- login
CallLogin(u, rm) ==
    /\ CanStart
    /\ Start([NewCall("login") EXCEPT !.username = u, !.rememberMe = rm,
                                     !.pc = "login"])
    /\ UNCHANGED store

\* Where login goes after `await this.request("/login")`: the catch block on
\* a rejection or a non-ok status, loginResponse.json() when rememberMe,
\* the parallel fetch otherwise.
loginAfterResponseAlwaysStore(r, rm) ==
    IF r # "ok" THEN "rejected" ELSE "tokenJson"
loginAfterResponseNoOkCheck(r, rm) ==
    IF r = "neterr" THEN "rejected" ELSE IF rm THEN "tokenJson" ELSE "all"
loginAfterResponse(r, rm) ==
    IF r # "ok" THEN "rejected" ELSE IF rm THEN "tokenJson" ELSE "all"

\* The /login request settles with outcome r; b is the body of a Response.
LoginResponse ==
    \E c \in Active :
        /\ c.pc = "login"
        /\ \E r \in Outcomes, b \in LoginBodies :
               /\ LET next == loginAfterResponse(r, c.rememberMe)
                      d == [c EXCEPT !.resp = r] IN
                  Replace(c, CASE next = "tokenJson" -> [d EXCEPT !.pc = "tokenJson", !.body = b]
                               [] next = "all" -> FetchProfileAndRoles(d)
                               [] OTHER -> Rethrow(d))
               /\ UNCHANGED store

\* loginResponse.json() settles; the token is stored and the fetch starts.
LoginJson ==
    \E c \in Active :
        /\ c.pc = "tokenJson"
        /\ IF JsonRejects(c.body)
           THEN /\ Replace(c, Rethrow(c))
                /\ UNCHANGED store
           ELSE /\ store' = setItem(store, c.body)
                /\ Replace(c, FetchProfileAndRoles([c EXCEPT !.body = JNull]))

\* ------------------------------------------------ getProfileForLoggedInUser
CallGetProfile ==
    /\ CanStart
    /\ Start([NewCall("getProfile") EXCEPT !.token = getItem(store), !.pc = "get"])
    /\ UNCHANGED store

\* The /get request settles with outcome r; its status is never read.
GetResponse ==
    \E c \in Active :
        /\ c.pc = "get"
        /\ \E r \in Outcomes :
               /\ LET d == [c EXCEPT !.resp = r, !.token = JNull] IN
                  Replace(c, IF r = "neterr"
                             THEN Rethrow(d)
                             ELSE [d EXCEPT !.pc = "getJson", !.nonOk = r = "notok"])
               /\ UNCHANGED store

\* userResponse.json() settles on body b; { username } is taken and the
\* fetch starts.
GetJson ==
    \E c \in Active :
        /\ c.pc = "getJson"
        /\ \E b \in GetBodies :
               /\ Replace(c, IF JsonRejects(b) \/ DestructureThrows(b)
                             THEN Rethrow(c)
                             ELSE FetchProfileAndRoles([c EXCEPT !.username = UsernameOf(b)]))
               /\ UNCHANGED store

\* ------------------------------------------------------------ specification
\* The caller has observed the settled promise and no request of the call is
\* outstanding: the call is forgotten.
Return ==
    \E c \in Active :
        /\ c.pc \in Done
        /\ c.profileReq # "pending" /\ c.rolesReq # "pending"
        /\ Remove(c)
        /\ UNCHANGED store

Next ==
    \/ CallIsLoggedIn
    \/ ValidateResponse
    \/ \E u \in Usernames, rm \in BOOLEAN : CallLogin(u, rm)
    \/ LoginResponse
    \/ LoginJson
    \/ CallGetProfile
    \/ GetResponse
    \/ GetJson
    \/ ProfileResponse
    \/ RolesResponse
    \/ ProfileJson
    \/ RolesJson
    \/ CallLogout
    \/ LogoutResponse
    \/ Return

Spec == Init /\ [][Next]_vars

\* --------------------------------------------- a batch of calls, run to the end
\* The calls a caller can make on store st, each as it is once it has run
\* to its first await.
JustCalled(st) ==
    {[NewCall("isLoggedIn") EXCEPT !.token = getItem(st), !.pc = "validate"],
     [NewCall("getProfile") EXCEPT !.token = getItem(st), !.pc = "get"],
     [NewCall("logout") EXCEPT !.token = getItem(st), !.pc = "logout"]}
    \cup {[NewCall("login") EXCEPT !.username = u, !.rememberMe = rm, !.pc = "login"] :
             u \in Usernames, rm \in BOOLEAN}

\* The bags of at most k calls made in one turn of the event loop on store st.
RECURSIVE Batch(_, _)
Batch(k, st) ==
    IF k = 0 THEN {EmptyBag}
    ELSE Batch(k - 1, st)
         \cup {b (+) SetToBag({c}) : b \in Batch(k - 1, st), c \in JustCalled(st)}

\* The page has made its calls, all before any request settled.
BatchInit ==
    /\ store \in {Absent} \cup {<<t>> : t \in Tokens}
    /\ calls \in Batch(NumCalls, store)

\* No further call is made: requests and body reads settle.
BatchNext ==
    \/ ValidateResponse
    \/ LoginResponse
    \/ LoginJson
    \/ GetResponse
    \/ GetJson
    \/ ProfileResponse
    \/ RolesResponse
    \/ ProfileJson
    \/ RolesJson
    \/ LogoutResponse

\* Requests issued, and body reads started on their responses, eventually
\* resolve or reject: while one is outstanding, one eventually settles.
RequestsSettle == WF_vars(BatchNext)

BatchSpec == BatchInit /\ [][BatchNext]_vars /\ RequestsSettle

TypeOK ==
    /\ store \in {Absent} \cup {<<t>> : t \in Tokens}
    /\ IsABag(calls)
    /\ BagCardinality(calls) <= NumCalls
    /\ \A c \in Active :
        /\ c.op \in {"isLoggedIn", "login", "getProfile", "logout"}
        /\ c.pc \in {"validate", "login", "tokenJson", "get", "getJson",
                     "all", "profileJson", "rolesJson", "logout"} \cup Done
        /\ c.profileReq \in {"none", "pending", "arrived", "neterr"}
        /\ c.rolesReq \in {"none", "pending", "arrived", "neterr"}
        /\ c.nonOk \in BOOLEAN
        /\ c.since \in {"same", "evicted", "written", "replaced"}

\* ------------------------------------------------------------------ claims
\* The calls after the step.
ActiveNext == BagToSet(calls')

\* The step is taken by call c, which becomes n: the bag holds one c less
\* and one n more.
Stepped(c, n) ==
    /\ CopiesIn(c, calls') < CopiesIn(c, calls)
    /\ CopiesIn(n, calls') > CopiesIn(n, calls)

\* The step starts call n.
Started(n) ==
    /\ BagCardinality(calls') > BagCardinality(calls)
    /\ CopiesIn(n, calls') > CopiesIn(n, calls)

\* The step is taken by call c, running method m, which leaves the await `at`.
Leaves(c, n, m, at) == c.op = m /\ c.pc = at /\ n.pc # at /\ Stepped(c, n)

FetchPcs == {"all", "profileJson", "rolesJson"}

\* C1: in a login with rememberMe = true whose /login response was 2xx with a
\* body that parses to the token t, the store holds t after the write,
\* whatever it held before, and no later step of that login changes the
\* store, so it still holds t when login resolves.
C1_LoginStoresToken ==
    [][\A c \in Active, n \in ActiveNext :
        /\ (c.pc = "tokenJson" /\ c.rememberMe /\ c.resp = "ok"
              /\ c.body \in {JStr(t) : t \in Tokens}
              /\ Leaves(c, n, "login", "tokenJson"))
           => (store' = <<c.body.v>> /\ n.pc = "all")
        /\ (c.op = "login" /\ c.pc \in FetchPcs /\ Stepped(c, n))
           => store' = store]_vars

C1_Witness ==
    \E c \in Active :
        /\ c.op = "login" /\ c.rememberMe /\ c.pc = "resolved"
        /\ c.result.k = "data"
        /\ store \in {<<t>> : t \in Tokens}

\* C2: no step of a login call with rememberMe = false writes or clears the
\* store, whatever the outcomes of /login, /profile and /roles.
C2_LoginNoRememberFrame ==
    [][/\ \A n \in ActiveNext :
            (Started(n) /\ n.op = "login" /\ ~n.rememberMe) => store' = store
       /\ \A c \in Active, n \in ActiveNext :
            (c.op = "login" /\ ~c.rememberMe /\ Stepped(c, n)) => store' = store]_vars

C2_Witness ==
    \E c \in Active :
        /\ c.op = "login" /\ ~c.rememberMe /\ c.pc = "resolved"
        /\ c.result.k = "data"
        /\ store = Absent

\* C3 as stated: isLoggedIn returns false and leaves the store empty whenever
\* validation returns a non-2xx status or the token it read was absent.
C3_AbsentOrNonOkIsFalse ==
    [][\A c \in Active, n \in ActiveNext :
        (Leaves(c, n, "isLoggedIn", "validate")
            /\ (n.resp = "notok" \/ c.token = JNull))
        => (n.result = BoolResult(FALSE) /\ store' = Absent)]_vars

\* C3 amended: isLoggedIn returns false and leaves the store empty whenever
\* validation returns a non-2xx status, whether or not a token was stored; an
\* absent token gives false when the request for it is answered non-2xx or
\* fails, not when it is answered 2xx.
C3_NonOkIsFalse ==
    [][\A c \in Active, n \in ActiveNext :
        (Leaves(c, n, "isLoggedIn", "validate")
            /\ (n.resp = "notok" \/ (c.token = JNull /\ n.resp # "ok")))
        => (n.pc = "resolved" /\ n.result = BoolResult(FALSE)
            /\ store' = Absent)]_vars

C3_Witness ==
    \E c \in Active :
        /\ c.op = "isLoggedIn" /\ c.pc = "resolved" /\ c.resp = "notok"
        /\ c.result = BoolResult(FALSE)
        /\ store = Absent

\* C4: when /validateToken answers 2xx, isLoggedIn resolves true and does not
\* write or remove the stored token.
C4_ValidKeepsStore ==
    [][\A c \in Active, n \in ActiveNext :
        (Leaves(c, n, "isLoggedIn", "validate") /\ n.resp = "ok")
        => (n.pc = "resolved" /\ n.result = BoolResult(TRUE)
            /\ store' = store)]_vars

C4_Witness ==
    \E c \in Active :
        /\ c.op = "isLoggedIn" /\ c.pc = "resolved" /\ c.resp = "ok"
        /\ c.result = BoolResult(TRUE)
        /\ store \in {<<t>> : t \in Tokens}

\* C5: logout empties the store and resolves when /logout answers with any
\* status; when the request fails to complete it rejects and does not remove
\* the stored token.
C5_LogoutClears ==
    [][\A c \in Active, n \in ActiveNext :
        Leaves(c, n, "logout", "logout")
        => /\ n.resp \in Statuses => (store' = Absent /\ n.pc = "resolved")
           /\ n.resp = "neterr" => (store' = store /\ n.pc = "rejected")
           /\ n.resp \in Outcomes]_vars

C5_Witness ==
    \E c \in Active :
        /\ c.op = "logout" /\ c.pc = "resolved" /\ c.resp = "notok"
        /\ store = Absent

\* C6: when /login answers with a non-success status, login rejects in that
\* step with the store unchanged, for both values of rememberMe, and the
\* rejected call never writes the store afterwards.
C6_LoginFailureFrame ==
    [][\A c \in Active, n \in ActiveNext :
        /\ (Leaves(c, n, "login", "login") /\ n.resp = "notok")
           => (n.pc = "rejected" /\ store' = store)
        /\ (c.op = "login" /\ c.pc = "rejected" /\ Stepped(c, n))
           => store' = store]_vars

C6_Witness ==
    \E c \in Active :
        /\ c.op = "login" /\ c.rememberMe /\ c.pc = "rejected"
        /\ c.resp = "notok"
        /\ store \in {<<t>> : t \in Tokens}

\* C7: isLoggedIn never rejects: for every outcome of the validation request
\* it resolves with a boolean, and on every failure outcome (non-2xx status
\* or transport failure) it resolves false with the store cleared.
C7_IsLoggedInNeverRejects ==
    [][\A c \in Active, n \in ActiveNext :
        Leaves(c, n, "isLoggedIn", "validate")
        => /\ n.pc = "resolved"
           /\ n.result \in {BoolResult(TRUE), BoolResult(FALSE)}
           /\ n.resp # "ok" => (n.result = BoolResult(FALSE) /\ store' = Absent)]_vars

C7_Witness ==
    \E c \in Active :
        /\ c.op = "isLoggedIn" /\ c.pc = "resolved" /\ c.resp = "neterr"
        /\ c.result = BoolResult(FALSE)
        /\ store = Absent

\* C8 as stated: login and getProfileForLoggedInUser never resolve with a
\* {profile, roles} result when one of their requests came back with a
\* non-success status.
C8_NoResultAfterFailure ==
    [][\A c \in Active, n \in ActiveNext :
        (c.op \in {"login", "getProfile"} /\ n.pc = "resolved" /\ Stepped(c, n))
        => ~c.nonOk]_vars

\* C9: the store takes a token only in a login with rememberMe = true whose
\* /login response was 2xx, becomes empty only in a logout whose request
\* resolved or in an isLoggedIn whose validation was negative or failed, and
\* no step of getProfileForLoggedInUser changes it.
C9_StoreTransitions ==
    [][store' # store =>
        \E c \in Active, n \in ActiveNext :
            /\ c.op # "getProfile"
            /\ Stepped(c, n)
            /\ store' # Absent =>
                 (Leaves(c, n, "login", "tokenJson") /\ c.rememberMe /\ c.resp = "ok")
            /\ store' = Absent =>
                 \/ (Leaves(c, n, "logout", "logout") /\ n.resp \in Statuses)
                 \/ (Leaves(c, n, "isLoggedIn", "validate")
                       /\ n.resp \in {"notok", "neterr"})]_vars

C9_Witness ==
    \E c, d \in Active :
        /\ c.op = "logout" /\ c.pc = "resolved"
        /\ d.op = "getProfile" /\ d.pc = "resolved"
        /\ store = Absent

\* C10: /profile and /roles are both issued in the step that reaches the
\* combined await; the operation goes on to its result only once both
\* responses have arrived; when one request rejects the operation rejects in
\* that step, the other request staying in flight; and a request that
\* settles after the call has settled changes neither its outcome nor the
\* store.
C10_ParallelFetch ==
    [][\A c \in Active, n \in ActiveNext :
        Stepped(c, n) =>
        /\ (c.pc # "all" /\ n.pc = "all")
           => (n.profileReq = "pending" /\ n.rolesReq = "pending")
        /\ n.pc \in {"profileJson", "rolesJson"}
           => (n.profileReq = "arrived" /\ n.rolesReq = "arrived")
        /\ (n.pc = "resolved" /\ c.op \in {"login", "getProfile"})
           => (c.pc = "rolesJson" /\ n.result.k = "data")
        /\ (c.pc = "all" /\ c.profileReq = "pending"
              /\ n.profileReq \notin {"pending", "arrived"})
           => (n.pc = "rejected" /\ n.rolesReq = Release(c.rolesReq))
        /\ (c.pc = "all" /\ c.rolesReq = "pending"
              /\ n.rolesReq \notin {"pending", "arrived"})
           => (n.pc = "rejected" /\ n.profileReq = Release(c.profileReq))
        /\ c.pc \in Done
           => (n.pc = c.pc /\ n.result = c.result /\ store' = store)]_vars

C10_Witness ==
    \E c \in Active :
        /\ c.op \in {"login", "getProfile"} /\ c.pc = "rejected"
        /\ c.profileReq = "none" /\ c.rolesReq = "pending"

\* C11: two isLoggedIn calls that read the same token can interleave so that
\* one clears the store and the other then resolves true on an empty store:
\* when a call's validation fails while another isLoggedIn call that read the
\* same token is still in flight, the store is emptied and the other call
\* stays in flight with its token; and a call that read a token and resumes
\* on a 2xx answer with the store already empty resolves true, the store
\* staying empty.
C11_StaleTrue ==
    [][\A c \in Active, n \in ActiveNext :
        Leaves(c, n, "isLoggedIn", "validate") =>
        /\ (n.resp # "ok" /\ c.token # JNull /\ store = <<c.token.v>>)
           => /\ store' = Absent
              /\ \A d \in Active :
                    (d.pc = "validate" /\ d.token = c.token
                       /\ (d # c \/ CopiesIn(c, calls) > 1))
                    => d \in ActiveNext
        /\ (n.resp = "ok" /\ c.token # JNull /\ store = Absent)
           => (n.pc = "resolved" /\ n.result = BoolResult(TRUE)
               /\ n.since = "evicted" /\ store' = Absent)]_vars

\* One isLoggedIn call found the token it had read and removed it on a failed
\* validation; another resolved true having found the store empty.
C11_Witness ==
    \E c, d \in Active :
        /\ c.op = "isLoggedIn" /\ c.pc = "resolved" /\ c.resp # "ok"
        /\ c.result = BoolResult(FALSE) /\ c.since = "same"
        /\ d.op = "isLoggedIn" /\ d.pc = "resolved" /\ d.resp = "ok"
        /\ d.result = BoolResult(TRUE) /\ d.since = "evicted"
        /\ store = Absent

\* C12: the clear of isLoggedIn (validation negative or failed) and of logout
\* (request resolved) does not depend on what the store holds: the store is
\* empty after it whether the store still held what the call had read, or
\* another token written meanwhile by a login with rememberMe = true. A
\* login's write leaves the calls in flight as they are, with the token
\* they read.
C12_UnconditionalClear ==
    [][\A c \in Active, n \in ActiveNext :
        /\ (\/ (n.resp # "ok" /\ Leaves(c, n, "isLoggedIn", "validate"))
            \/ (n.resp \in Statuses /\ Leaves(c, n, "logout", "logout")))
           => /\ store' = Absent
              /\ n.since = StoreSince(c.token, store)
              /\ n.pc = "resolved"
        /\ (c.rememberMe /\ store' # store /\ Leaves(c, n, "login", "tokenJson"))
           => \A d \in Active :
                 (d.pc \in {"validate", "logout"}) => d \in ActiveNext]_vars

\* A login with rememberMe = true has written its token, and an isLoggedIn or
\* logout call that had read something else found that token and removed it.
C12_Witness ==
    \E c, l \in Active :
        /\ c.op \in {"isLoggedIn", "logout"} /\ c.pc = "resolved"
        /\ c.since = "replaced"
        /\ c.op = "isLoggedIn" => c.result = BoolResult(FALSE)
        /\ l.op = "login" /\ l.rememberMe /\ l.resp = "ok"
        /\ l.pc \in FetchPcs \cup Done
        /\ store = Absent

\* C13: a login with rememberMe = true reaches the token write only after a
\* 2xx /login response, and writes the token in the step that then issues
\* /profile and /roles, neither being issued before; a later step in which
\* that login rejects (a request or a body read failed) leaves the store as
\* it is, so the token is not rolled back.
C13_TokenWrittenBeforeFetch ==
    [][\A c \in Active, n \in ActiveNext :
        (c.op = "login" /\ c.rememberMe /\ Stepped(c, n)) =>
        /\ n.pc = "tokenJson" => (n.resp = "ok" /\ store' = store)
        /\ (c.pc = "tokenJson" /\ ~JsonRejects(c.body))
           => /\ c.resp = "ok"
              /\ c.profileReq = "none" /\ c.rolesReq = "none"
              /\ store' = <<JsString(c.body)>>
              /\ n.pc = "all"
              /\ n.profileReq = "pending" /\ n.rolesReq = "pending"
        /\ (c.pc \in FetchPcs /\ n.pc = "rejected") => store' = store]_vars

\* A logout call in flight read an empty store; a login with rememberMe = true
\* has since rejected on its /profile request, /roles still in flight, and
\* the store holds a token.
C13_Witness ==
    \E c, d \in Active :
        /\ c.op = "login" /\ c.rememberMe /\ c.pc = "rejected" /\ c.resp = "ok"
        /\ c.rolesReq = "pending"
        /\ d.pc = "logout" /\ d.token = JNull
        /\ store \in {<<t>> : t \in Tokens}

\* C14: an isLoggedIn call starts by issuing its /validateToken request with
\* the value it read from the store, null when the store is empty, and is
\* then in flight, never settled without a request; its only step is the one
\* in which that request settles and the call with it, so no second request
\* is issued; and a call that carried null resolves true exactly when the
\* response status is 2xx.
C14_AlwaysValidates ==
    [][/\ \A n \in ActiveNext :
            (n.op = "isLoggedIn" /\ Started(n))
            => /\ n.pc = "validate" /\ n.resp = "none" /\ n.result = NoResult
               /\ n.token = getItem(store)
               /\ store = Absent => n.token = JNull
       /\ \A c \in Active, n \in ActiveNext :
            (c.op = "isLoggedIn" /\ Stepped(c, n))
            => /\ c.pc = "validate" /\ c.resp = "none"
               /\ n.pc \in Done /\ n.resp \in Outcomes
               /\ c.token = JNull
                  => n.result = BoolResult(n.resp = "ok")]_vars

\* On an empty store one isLoggedIn call has resolved true and another is in
\* flight with a null token.
C14_Witness ==
    \E c, d \in Active :
        /\ c.op = "isLoggedIn" /\ c.pc = "resolved" /\ c.resp = "ok"
        /\ c.result = BoolResult(TRUE) /\ c.since = "same"
        /\ d.op = "isLoggedIn" /\ d.pc = "validate" /\ d.token = JNull
        /\ store = Absent

\* The awaits a call of each method can be suspended at.
OpPcs(m) ==
    CASE m = "isLoggedIn" -> {"validate"}
      [] m = "logout" -> {"logout"}
      [] m = "login" -> {"login", "tokenJson", "all", "profileJson", "rolesJson"}
      [] m = "getProfile" -> {"get", "getJson", "all", "profileJson", "rolesJson"}

\* The position of an await in its method; a settled call is past them all.
Rank(pc) ==
    CASE pc \in {"validate", "logout", "login", "get"} -> 1
      [] pc \in {"tokenJson", "getJson"} -> 2
      [] pc = "all" -> 3
      [] pc = "profileJson" -> 4
      [] pc = "rolesJson" -> 5
      [] pc \in Done -> 6

\* The requests of /profile and /roles a call has in flight.
InFlight(c) ==
    (IF c.profileReq = "pending" THEN 1 ELSE 0)
    + (IF c.rolesReq = "pending" THEN 1 ELSE 0)

\* C15: no call retries: a call is only ever suspended at an await of its own
\* method, each step it takes moves it to a later await or settles it, or
\* is the settling of one of its two parallel requests, so no await and no
\* request is reached twice, /profile and /roles are issued only in the step
\* that reaches the combined await, never again, and a settled call stays
\* settled; and, every issued request and body read eventually settling,
\* every call made is eventually settled for good.
C15_NoRetryAndSettles ==
    /\ [][\A c \in Active, n \in ActiveNext :
            Stepped(c, n) =>
            /\ n.op = c.op
            /\ n.pc \in OpPcs(n.op) \cup Done
            /\ \/ Rank(n.pc) > Rank(c.pc)
               \/ (n.pc = c.pc /\ InFlight(n) < InFlight(c)
                     /\ c.pc \in {"all"} \cup Done)
            /\ (n.profileReq = "pending" /\ c.profileReq # "pending")
               => (c.profileReq = "none" /\ Rank(c.pc) < 3 /\ n.pc = "all")
            /\ (n.rolesReq = "pending" /\ c.rolesReq # "pending")
               => (c.rolesReq = "none" /\ Rank(c.pc) < 3 /\ n.pc = "all")]_vars
    /\ <>[](\A c \in Active : c.pc \in Done)

\* A login and a getProfileForLoggedInUser call made together have both
\* settled, one resolved with its data and one rejected.
C15_Witness ==
    \E c, d \in Active :
        /\ c.op = "login" /\ c.pc = "resolved" /\ c.result.k = "data"
        /\ d.op = "getProfile" /\ d.pc = "rejected"

====
